---- MODULE Spec2Model ----
(***************************************************************************)
(* Model of the two enova365 command-line tools:                           *)
(*   01_converter_utf16_to_utf8.py  (the Normalizer, convert_to_utf8)      *)
(*   02_compare_two_txt_files.py    (the Differ, compare_files)            *)
(*                                                                         *)
(* A text is a sequence of symbols.  The whitespace symbols and the double *)
(* quote are single characters; every other symbol stands for one piece of *)
(* text without whitespace and without quotes (a label, a code, a name).   *)
(* One behaviour is one run of one tool on files chosen in Init.           *)
(***************************************************************************)
EXTENDS Integers, Sequences, FiniteSets, TLC

VARIABLES
    tool,             \* "normalizer" or "differ": the script that is run
    pc,               \* position inside convert_to_utf8 / compare_files
    file1,            \* the input file (Normalizer: input_file)
    file2,            \* the second input file (Differ only)
    content,          \* Normalizer: the lines returned by readlines()
    cleaned_content,  \* Normalizer: result of process_file_content
    skipped_lines,    \* Normalizer: result of process_file_content
    table,            \* Normalizer: rows added to the PrettyTable
    output,           \* Normalizer: what was written to output_file
    data1,            \* Differ: content1, skipped1 = read_file(file1)
    data2,            \* Differ: content2, skipped2 = read_file(file2)
    diff,             \* Differ: result of find_differences
    refed,            \* result of process_file_content on its own output
    log,              \* the messages logged so far, in order
    exit_code         \* process exit status (-1 until the run ends)

vars == <<tool, pc, file1, file2, content, cleaned_content, skipped_lines,
          table, output, data1, data2, diff, refed, log, exit_code>>

----------------------------------------------------------------------------
(* Bounds of the model *)

\* most lines in the Normalizer's input file
MaxLines == 2
\* most lines in the Differ's first file
MaxLines1 == 2
\* most lines in the Differ's second file
MaxLines2 == 1

----------------------------------------------------------------------------
(* Characters *)

Tab   == "\\t"
Sp    == " "
NL    == "\\n"
FF    == "\\f"
Quote == "''"

\* str.strip() and the regular expression class \s
IsSpace(c) == c \in {Tab, Sp, NL, FF}

\* number of columns both tools test for: len(fields) == 5
NumFields == 5

----------------------------------------------------------------------------
(* String functions of Python, as the code uses them *)

RECURSIVE lstrip(_)
lstrip(s) ==
    IF s = <<>> THEN <<>>
    ELSE IF IsSpace(Head(s)) THEN lstrip(Tail(s)) ELSE s

RECURSIVE rstrip(_)
rstrip(s) ==
    IF s = <<>> THEN <<>>
    ELSE IF IsSpace(s[Len(s)]) THEN rstrip(SubSeq(s, 1, Len(s) - 1)) ELSE s

\* line.strip()
strip(s) == rstrip(lstrip(s))

\* re.sub(r"\s+", "", s)
remove_whitespace(s) == SelectSeq(s, LAMBDA c : ~IsSpace(c))

\* field.replace('"', '')
remove_quotes(s) == SelectSeq(s, LAMBDA c : c # Quote)

\* first index >= i of s that holds no space (Len(s)+1 when there is none)
RECURSIVE EndOfSpaces(_, _)
EndOfSpaces(s, i) ==
    IF i <= Len(s) /\ s[i] = Sp THEN EndOfSpaces(s, i + 1) ELSE i

\* re.split(r'\t| {2,}', s): cut at every tab and at every maximal run of two
\* or more spaces; a single space stays inside its field
RECURSIVE re_split_from(_, _, _, _)
re_split_from(s, i, cur, out) ==
    IF i > Len(s) THEN Append(out, cur)
    ELSE IF s[i] = Tab THEN re_split_from(s, i + 1, <<>>, Append(out, cur))
    ELSE IF s[i] = Sp /\ i < Len(s) /\ s[i + 1] = Sp
         THEN re_split_from(s, EndOfSpaces(s, i), <<>>, Append(out, cur))
    ELSE re_split_from(s, i + 1, Append(cur, s[i]), out)

re_split(s) == re_split_from(s, 1, <<>>, <<>>)

\* s.split("\t")
RECURSIVE split_tab_from(_, _, _, _)
split_tab_from(s, i, cur, out) ==
    IF i > Len(s) THEN Append(out, cur)
    ELSE IF s[i] = Tab THEN split_tab_from(s, i + 1, <<>>, Append(out, cur))
    ELSE split_tab_from(s, i + 1, Append(cur, s[i]), out)

split_tab(s) == split_tab_from(s, 1, <<>>, <<>>)

\* a variant of join_tab: " ".join(fields)
RECURSIVE join_space(_)
join_space(fields) ==
    IF fields = <<>> THEN <<>>
    ELSE IF Len(fields) = 1 THEN fields[1]
    ELSE fields[1] \o <<Sp>> \o join_space(Tail(fields))

\* "\t".join(fields)
RECURSIVE join_tab(_)
join_tab(fields) ==
    IF fields = <<>> THEN <<>>
    ELSE IF Len(fields) = 1 THEN fields[1]
    ELSE fields[1] \o <<Tab>> \o join_tab(Tail(fields))

\* [f(x) for x in seq]
Map(f(_), seq) == [i \in 1..Len(seq) |-> f(seq[i])]

\* file.readlines(): every line keeps its line terminator
readlines(lines) == Map(LAMBDA l : l \o <<NL>>, lines)

----------------------------------------------------------------------------
(* Inputs: the lines a file may hold *)

\* the five labels of the header and the six values data rows are built from
Values == <<<<"001">>, <<"Nowak">>, <<"Jan">>, <<"IT">>, <<"Dev">>, <<"X">>>>

\* text surrounded by double quotes
Quoted(s) == <<Quote>> \o s \o <<Quote>>

\* fields joined by the delimiter d
RECURSIVE JoinWith(_, _)
JoinWith(fields, d) ==
    IF fields = <<>> THEN <<>>
    ELSE IF Len(fields) = 1 THEN fields[1]
    ELSE fields[1] \o d \o JoinWith(Tail(fields), d)

\* a line of the first n values, delimited by d, every value quoted when q
RowOf(n, d, q) ==
    JoinWith([i \in 1..n |-> IF q THEN Quoted(Values[i]) ELSE Values[i]], d)

Delimiters == {<<Tab>>, <<Sp, Sp>>, <<Sp, Quote, Sp>>}

HeaderLabels == <<<<"Kod">>, <<"Nazwisko">>, <<"Imie">>, <<"Dzial">>, <<"Zatrudnienie">>>>

\* the header as it is written in both scripts
HeaderText == JoinWith(HeaderLabels, <<Tab>>)

NormalizerLines ==
    {RowOf(n, d, q) : n \in {NumFields - 1, NumFields, NumFields + 1},
                      d \in Delimiters, q \in BOOLEAN}
    \cup {HeaderText,
          <<Sp>> \o JoinWith(HeaderLabels, <<Sp, Sp>>) \o <<FF>>,
          JoinWith(Map(Quoted, HeaderLabels), <<Tab>>)}
    \cup {<<>>,
          <<Sp, Sp>> \o RowOf(NumFields, <<Tab>>, FALSE) \o <<Sp, FF>>,
          RowOf(NumFields, <<Tab>>, FALSE) \o <<Sp, Quote, Sp>> \o Values[NumFields + 1],
          RowOf(NumFields, <<Tab>>, FALSE) \o <<Sp>> \o Values[NumFields + 1],
          <<Quote, Quote, Tab>> \o RowOf(NumFields - 1, <<Tab>>, FALSE),
          RowOf(NumFields - 1, <<Tab>>, FALSE) \o <<Tab, Quote, Quote>>}

\* a data row of the Differ's files: code, three fixed values, a last value
DifferRow(kod, last) == JoinWith(<<kod>> \o SubSeq(Values, 2, NumFields - 1) \o <<last>>, <<Tab>>)

DifferLines ==
    {DifferRow(<<"001">>, <<"Dev">>),
     DifferRow(<<"001">>, <<"Manager">>),
     DifferRow(<<"002">>, <<"Dev">>),
     DifferRow(Quoted(<<"001">>), <<"Dev">>),
     DifferRow(<<"001">>, Quoted(<<"Dev">>)),
     HeaderText,
     <<"Kod">> \o <<Tab, Sp>> \o JoinWith(Tail(HeaderLabels), <<Tab>>),
     <<Sp>> \o RowOf(NumFields - 1, <<Tab>>, FALSE) \o <<Sp>>}

\* all sequences of at most n elements of S
SeqsUpTo(S, n) == UNION {[1..k -> S] : k \in 0..n}

\* A file on disk: what validate_file, the decoder and readlines() find there.
\*   missing      the path does not exist
\*   empty        the file has size 0
\*   undecodable  Normalizer: the bytes are not UTF-16;
\*                Differ: charset_normalizer finds no encoding
\*   unreadable   open() or the read fails with an OSError
\*   ok           the file decodes to `lines` (no lines: only a byte order mark)
BadFile(st) == [status |-> st, lines |-> <<>>]
NoFile == BadFile("none")
BadStatuses == {"missing", "empty", "undecodable", "unreadable"}

Files(Lines, n) ==
    {BadFile(st) : st \in BadStatuses}
    \cup {[status |-> "ok", lines |-> ls] : ls \in SeqsUpTo(Lines, n)}

----------------------------------------------------------------------------
(* The Normalizer: 01_converter_utf16_to_utf8.py *)

\* expected_header of convert_to_utf8 (the .strip() leaves it unchanged)
expected_header == strip(HeaderText)

\* the header test of process_file_content
is_header(line_cleaned, header) ==
    remove_whitespace(line_cleaned) = remove_whitespace(header)

\* a variant of split_fields: the quotes are removed before the line is split
split_fields_quotes_first(line_cleaned) == re_split(remove_quotes(line_cleaned))

\* the fields of a line: split first, then the quotes are removed from each
split_fields(line_cleaned) == Map(remove_quotes, re_split(line_cleaned))

\* a variant of process_line: the header is dropped without being recorded
process_line_header_dropped(acc, line, header) ==
    LET line_cleaned == strip(line)
        fields == split_fields(line_cleaned)
    IN  IF is_header(line_cleaned, header)
        THEN acc
        ELSE IF Len(fields) = NumFields
        THEN [acc EXCEPT !.table = Append(@, fields),
                         !.cleaned = Append(@, join_tab(fields) \o <<NL>>)]
        ELSE [acc EXCEPT !.skipped = Append(@, line_cleaned)]

\* a variant of process_line: a line of more than 5 fields is accepted too
process_line_at_least(acc, line, header) ==
    LET line_cleaned == strip(line)
        fields == split_fields(line_cleaned)
    IN  IF is_header(line_cleaned, header)
        THEN [acc EXCEPT !.skipped = Append(@, line_cleaned)]
        ELSE IF Len(fields) >= NumFields
        THEN [acc EXCEPT !.table = Append(@, fields),
                         !.cleaned = Append(@, join_tab(fields) \o <<NL>>)]
        ELSE [acc EXCEPT !.skipped = Append(@, line_cleaned)]

\* one iteration of the loop of process_file_content
process_line(acc, line, header) ==
    LET line_cleaned == strip(line)
        fields == split_fields(line_cleaned)
    IN  IF is_header(line_cleaned, header)
        THEN [acc EXCEPT !.skipped = Append(@, line_cleaned)]
        ELSE IF Len(fields) = NumFields
        THEN [acc EXCEPT !.table = Append(@, fields),
                         !.cleaned = Append(@, join_tab(fields) \o <<NL>>)]
        ELSE [acc EXCEPT !.skipped = Append(@, line_cleaned)]

RECURSIVE process_lines(_, _, _)
process_lines(acc, lines, header) ==
    IF lines = <<>> THEN acc
    ELSE process_lines(process_line(acc, Head(lines), header), Tail(lines), header)

\* process_file_content: (cleaned_content, skipped_lines, table)
process_file_content(lines, header) ==
    process_lines([cleaned |-> <<>>, skipped |-> <<>>, table |-> <<>>], lines, header)

\* output_file before anything is written to it; a value not yet computed
NoOutput == [state |-> "not written", lines |-> <<>>]
NoResult == [none |-> TRUE]

\* the run ends; convert_to_utf8 returns normally in every case
NFinish(msgs) ==
    /\ pc' = "done"
    /\ log' = log \o msgs
    /\ exit_code' = 0

\* validate_file(input_file), and the handler of what it raises
NValidate ==
    /\ tool = "normalizer" /\ pc = "start"
    /\ IF file1.status \in {"missing", "empty"}
       THEN NFinish(<<IF file1.status = "missing" THEN "ERROR FileNotFoundError"
                                                      ELSE "ERROR ValueError">>)
       ELSE /\ pc' = "validated"
            /\ UNCHANGED <<log, exit_code>>
    /\ UNCHANGED <<tool, file1, file2, content, cleaned_content, skipped_lines,
                   table, output, data1, data2, diff, refed>>

\* a variant of open_utf16: bytes that are not UTF-16 are read without error
open_utf16_ignore_errors(f) ==
    CASE f.status = "unreadable" -> {"ERROR OSError"}
      [] OTHER -> {"ok"}

\* what opening and reading input_file as UTF-16 does: the lines are read, or
\* a UnicodeDecodeError (or the UnicodeError of a missing byte order mark, a
\* ValueError) or an OSError is raised
open_utf16(f) ==
    CASE f.status = "undecodable" -> {"ERROR not UTF-16", "ERROR ValueError"}
      [] f.status = "unreadable" -> {"ERROR OSError"}
      [] OTHER -> {"ok"}

\* open(input_file, 'r', encoding='utf-16'), readlines(), and the handlers
NOpen ==
    /\ tool = "normalizer" /\ pc = "validated"
    /\ \E r \in open_utf16(file1) :
          IF r = "ok"
          THEN /\ content' = readlines(file1.lines)
               /\ log' = Append(log, "INFO opened")
               /\ pc' = "opened"
               /\ UNCHANGED exit_code
          ELSE /\ NFinish(<<r>>)
               /\ UNCHANGED content
    /\ UNCHANGED <<tool, file1, file2, cleaned_content, skipped_lines,
                   table, output, data1, data2, diff, refed>>

\* cleaned_content, skipped_lines, table = process_file_content(...)
NProcess ==
    /\ tool = "normalizer" /\ pc = "opened"
    /\ LET r == process_file_content(content, expected_header)
       IN  /\ cleaned_content' = r.cleaned
           /\ skipped_lines' = r.skipped
           /\ table' = r.table
    /\ log' = Append(log, "DEBUG lines read")
    /\ pc' = "processed"
    /\ UNCHANGED <<tool, file1, file2, content, output, data1, data2, diff,
                   refed, exit_code>>

\* a variant of count_differs: one line, the header, is expected to be missing
count_differs_header_discount(lines, cleaned) == Len(lines) - 1 # Len(cleaned)

\* whether the row counts are reported as different (line 89)
count_differs(lines, cleaned) == Len(lines) # Len(cleaned)

\* the check of the row counts that follows a successful write
count_messages(lines, cleaned) ==
    IF count_differs(lines, cleaned)
    THEN <<"WARNING counts differ", "DEBUG lines not written">>
    ELSE <<>>

\* open(output_file, 'w', encoding='utf-8'), writelines, and the rest of the run
NWrite ==
    /\ tool = "normalizer" /\ pc = "processed"
    /\ \/ /\ output' = [state |-> "written", lines |-> cleaned_content]
          /\ NFinish(<<"INFO saved">> \o count_messages(content, cleaned_content))
       \/ /\ output' = [state |-> "write failed", lines |-> <<>>]
          /\ NFinish(<<"ERROR write">>)
    /\ UNCHANGED <<tool, file1, file2, content, cleaned_content, skipped_lines,
                   table, data1, data2, diff, refed>>

NormalizerNext == NValidate \/ NOpen \/ NProcess \/ NWrite

----------------------------------------------------------------------------
(* The Differ: 02_compare_two_txt_files.py *)

\* a variant of DictSet: data.setdefault(kod, value), the first entry is kept
DictSetDefault(d, kod, value) ==
    [k \in DOMAIN d \cup {kod} |-> IF k \in DOMAIN d THEN d[k] ELSE value]

\* data[kod] = value
DictSet(d, kod, value) ==
    [k \in DOMAIN d \cup {kod} |-> IF k = kod THEN value ELSE d[k]]

\* the empty dict
EmptyDict == [k \in {} |-> <<>>]

\* the header test of read_file
is_header_line(line) == strip(line) = HeaderText

\* a variant of read_line: the double quotes are removed from the fields
read_line_strip_quotes(acc, line) ==
    LET fields == Map(remove_quotes, split_tab(strip(line)))
    IN  IF is_header_line(line)
        THEN [acc EXCEPT !.skipped = Append(@, strip(line))]
        ELSE IF Len(fields) = NumFields
        THEN [acc EXCEPT !.data = DictSet(@, fields[1], Tail(fields))]
        ELSE [acc EXCEPT !.skipped = Append(@, strip(line))]

\* one iteration of the loop of read_file
read_line(acc, line) ==
    LET fields == split_tab(strip(line))
    IN  IF is_header_line(line)
        THEN [acc EXCEPT !.skipped = Append(@, strip(line))]
        ELSE IF Len(fields) = NumFields
        THEN [acc EXCEPT !.data = DictSet(@, fields[1], Tail(fields))]
        ELSE [acc EXCEPT !.skipped = Append(@, strip(line))]

RECURSIVE read_lines(_, _)
read_lines(acc, lines) ==
    IF lines = <<>> THEN acc
    ELSE read_lines(read_line(acc, Head(lines)), Tail(lines))

\* what read_file returns when anything in it raises
read_failed == [data |-> EmptyDict, skipped |-> <<>>]

\* read_file: (data, skipped_lines) and what it logs on the way
read_file(f) ==
    CASE f.status = "undecodable" ->
           [result |-> read_failed,
            msgs |-> <<"ERROR encoding not detected", "ERROR reading the file">>]
      [] f.status = "unreadable" ->
           [result |-> read_failed,
            msgs |-> <<"INFO encoding detected", "ERROR reading the file">>]
      [] OTHER ->
           [result |-> read_lines([data |-> EmptyDict, skipped |-> <<>>],
                                  readlines(f.lines)),
            msgs |-> <<"INFO encoding detected">>]

\* a variant of find_differences: every common code is listed as modified
find_differences_all_common(content1, content2) ==
    LET set1 == DOMAIN content1
        set2 == DOMAIN content2
    IN  [unique_to_file1 |-> {<<kod, content1[kod], FALSE>> : kod \in set1 \ set2},
         unique_to_file2 |-> {<<kod, content2[kod], TRUE>> : kod \in set2 \ set1},
         modified_rows |-> {<<kod, content1[kod], TRUE>> : kod \in set1 \cap set2}]

\* find_differences; each result list is taken as the set of its tuples (the
\* code builds the lists from sets, in no particular order)
find_differences(content1, content2) ==
    LET set1 == DOMAIN content1
        set2 == DOMAIN content2
    IN  [unique_to_file1 |-> {<<kod, content1[kod], FALSE>> : kod \in set1 \ set2},
         unique_to_file2 |-> {<<kod, content2[kod], TRUE>> : kod \in set2 \ set1},
         modified_rows |-> {<<kod, content1[kod], TRUE>> :
                              kod \in {k \in set1 \cap set2 : content1[k] # content2[k]}}]

\* validate_file of one path: the message of what it raises, or "ok"
validate_file(f) ==
    CASE f.status = "missing" -> "ERROR FileNotFoundError"
      [] f.status = "empty" -> "ERROR ValueError"
      [] OTHER -> "ok"

\* validate_file(file1); validate_file(file2), and the handler with sys.exit(1)
DValidate ==
    /\ tool = "differ" /\ pc = "start"
    /\ LET first == validate_file(file1)
           failure == IF first # "ok" THEN first ELSE validate_file(file2)
       IN  IF failure # "ok"
           THEN /\ log' = Append(log, failure)
                /\ exit_code' = 1
                /\ pc' = "done"
           ELSE /\ pc' = "validated"
                /\ UNCHANGED <<log, exit_code>>
    /\ UNCHANGED <<tool, file1, file2, content, cleaned_content, skipped_lines,
                   table, output, data1, data2, diff, refed>>

\* content1, skipped1 = read_file(file1)
DRead1 ==
    /\ tool = "differ" /\ pc = "validated"
    /\ LET r == read_file(file1)
       IN  /\ data1' = r.result
           /\ log' = log \o r.msgs
    /\ pc' = "read1"
    /\ UNCHANGED <<tool, file1, file2, content, cleaned_content, skipped_lines,
                   table, output, data2, diff, refed, exit_code>>

\* content2, skipped2 = read_file(file2)
DRead2 ==
    /\ tool = "differ" /\ pc = "read1"
    /\ LET r == read_file(file2)
       IN  /\ data2' = r.result
           /\ log' = log \o r.msgs
    /\ pc' = "read2"
    /\ UNCHANGED <<tool, file1, file2, content, cleaned_content, skipped_lines,
                   table, output, data1, diff, refed, exit_code>>

\* the rest of compare_files: the log of the reads, find_differences, the
\* closing message; the function returns and the process exits with status 0
DCompare ==
    /\ tool = "differ" /\ pc = "read2"
    /\ diff' = find_differences(data1.data, data2.data)
    /\ log' = log \o <<"INFO file1 read", "INFO file2 read", "DEBUG skipped1",
                       "DEBUG skipped2", "INFO comparison finished">>
    /\ exit_code' = 0
    /\ pc' = "done"
    /\ UNCHANGED <<tool, file1, file2, content, cleaned_content, skipped_lines,
                   table, output, data1, data2, refed>>

DifferNext == DValidate \/ DRead1 \/ DRead2 \/ DCompare

----------------------------------------------------------------------------
(* One run of one of the two tools *)

Init ==
    /\ tool \in {"normalizer", "differ"}
    /\ pc = "start"
    /\ IF tool = "normalizer"
       THEN /\ file1 \in Files(NormalizerLines, MaxLines)
            /\ file2 = NoFile
       ELSE /\ file1 \in Files(DifferLines, MaxLines1)
            /\ file2 \in Files(DifferLines, MaxLines2)
    /\ content = <<>>
    /\ cleaned_content = <<>>
    /\ skipped_lines = <<>>
    /\ table = <<>>
    /\ output = NoOutput
    /\ data1 = NoResult
    /\ data2 = NoResult
    /\ diff = NoResult
    /\ refed = NoResult
    /\ log = <<>>
    /\ exit_code = -1

Next == NormalizerNext \/ DifferNext

Spec == Init /\ [][Next]_vars

----------------------------------------------------------------------------
(* process_file_content called on its own output *)

RTInit ==
    /\ tool = "process_file_content"
    /\ pc = "start"
    /\ file1 = NoFile
    /\ file2 = NoFile
    /\ content \in {readlines(ls) : ls \in SeqsUpTo(NormalizerLines, MaxLines)}
    /\ cleaned_content = <<>>
    /\ skipped_lines = <<>>
    /\ table = <<>>
    /\ output = NoOutput
    /\ data1 = NoResult
    /\ data2 = NoResult
    /\ diff = NoResult
    /\ refed = NoResult
    /\ log = <<>>
    /\ exit_code = -1

\* process_file_content(content, expected_header)
RTFirst ==
    /\ tool = "process_file_content" /\ pc = "start"
    /\ LET r == process_file_content(content, expected_header)
       IN  /\ cleaned_content' = r.cleaned
           /\ skipped_lines' = r.skipped
           /\ table' = r.table
    /\ pc' = "first"
    /\ UNCHANGED <<tool, file1, file2, content, output, data1, data2, diff,
                   refed, log, exit_code>>

\* process_file_content(cleaned_content, expected_header)
RTSecond ==
    /\ tool = "process_file_content" /\ pc = "first"
    /\ refed' = process_file_content(cleaned_content, expected_header)
    /\ pc' = "second"
    /\ UNCHANGED <<tool, file1, file2, content, cleaned_content, skipped_lines,
                   table, output, data1, data2, diff, log, exit_code>>

RTNext == RTFirst \/ RTSecond

SpecRoundTrip == RTInit /\ [][RTNext]_vars

----------------------------------------------------------------------------
(* Vocabulary of the properties *)

Range(s) == {s[i] : i \in DOMAIN s}

\* the codes of a result list of find_differences
Keys(rows) == {t[1] : t \in rows}

\* the subsequence of the lines whose index is in keep
RECURSIVE Keep(_, _, _)
Keep(lines, keep, i) ==
    IF i > Len(lines) THEN <<>>
    ELSE (IF i \in keep THEN <<lines[i]>> ELSE <<>>) \o Keep(lines, keep, i + 1)

\* a line equals the header once all whitespace is removed from both
HeaderModuloWhitespace(line) ==
    SelectSeq(line, LAMBDA c : ~IsSpace(c)) = SelectSeq(HeaderText, LAMBDA c : ~IsSpace(c))

\* read_file has just returned for file 1 / file 2, and the file could be read
Read1 == tool = "differ" /\ pc = "read1" /\ file1.status = "ok"
Read2 == tool = "differ" /\ pc = "read2" /\ file2.status = "ok"

\* the Differ's comparison was computed
Compared == tool = "differ" /\ diff # NoResult

\* the tab-separated fields of a trimmed line of the Differ's input
TabFields(line) == split_tab(strip(line))

\* the indices of the lines that the Differ takes as rows
AcceptedIdx(lines) ==
    {i \in DOMAIN lines : strip(lines[i]) # HeaderText /\ Len(TabFields(lines[i])) = NumFields}

----------------------------------------------------------------------------
(* C1: for the RecordSets A and B passed to find_differences, the key sets  *)
(* of unique_to_file1, unique_to_file2 and modified_rows are pairwise       *)
(* disjoint, and a code of A or B is in unique_to_file1 iff it is only in   *)
(* A, in unique_to_file2 iff it is only in B, in modified_rows iff it is in *)
(* both with different 4-field lists, and so in none iff it is in both with *)
(* identical values.                                                        *)
C1_DiffPartition ==
    Compared =>
        LET A == data1.data
            B == data2.data
            U1 == Keys(diff.unique_to_file1)
            U2 == Keys(diff.unique_to_file2)
            M == Keys(diff.modified_rows)
        IN  /\ U1 \cap U2 = {} /\ U1 \cap M = {} /\ U2 \cap M = {}
            /\ U1 \cup U2 \cup M \subseteq DOMAIN A \cup DOMAIN B
            /\ \A k \in DOMAIN A \cup DOMAIN B :
                  /\ k \in U1 <=> (k \in DOMAIN A /\ k \notin DOMAIN B)
                  /\ k \in U2 <=> (k \in DOMAIN B /\ k \notin DOMAIN A)
                  /\ k \in M <=> (k \in DOMAIN A /\ k \in DOMAIN B /\ A[k] # B[k])
                  /\ k \notin U1 \cup U2 \cup M
                        <=> (k \in DOMAIN A /\ k \in DOMAIN B /\ A[k] = B[k])
            /\ Cardinality(diff.unique_to_file1) = Cardinality(U1)
            /\ Cardinality(diff.unique_to_file2) = Cardinality(U2)
            /\ Cardinality(diff.modified_rows) = Cardinality(M)

\* a comparison with a code only in file 1 and a code in both files whose
\* values differ
C1_Witness ==
    /\ Compared
    /\ diff.unique_to_file1 # {}
    /\ diff.modified_rows # {}
    /\ diff.unique_to_file2 = {}

----------------------------------------------------------------------------
(* C10: the RecordSet read_file builds holds one entry per code of the      *)
(* accepted lines (5 tab-separated fields, not the header); its value is    *)
(* the other 4 fields of the last accepted line with that code; a repeated  *)
(* code adds nothing to the skipped list, and a malformed line never        *)
(* changes an entry.                                                        *)
LastWriteWins(f, r) ==
    LET acc == AcceptedIdx(f.lines)
        kod(i) == TabFields(f.lines[i])[1]
    IN  /\ DOMAIN r.data = {kod(i) : i \in acc}
        /\ \A k \in DOMAIN r.data :
              LET last == CHOOSE i \in acc :
                              /\ kod(i) = k
                              /\ \A j \in acc : kod(j) = k => j <= i
              IN  r.data[k] = Tail(TabFields(f.lines[last]))
        /\ r.skipped = Map(strip, Keep(f.lines, DOMAIN f.lines \ acc, 1))

C10_LastWriteWins ==
    /\ Read1 => LastWriteWins(file1, data1)
    /\ Read2 => LastWriteWins(file2, data2)

\* file 1 holds the code 001 twice, with different last fields, and the entry
\* is the one of the second line
C10_Witness ==
    /\ Read1
    /\ file1.lines = <<DifferRow(<<"001">>, <<"Dev">>), DifferRow(<<"001">>, <<"Manager">>)>>
    /\ DOMAIN data1.data = {<<"001">>}
    /\ data1.data[<<"001">>][NumFields - 1] = <<"Manager">>
    /\ data1.skipped = <<>>

----------------------------------------------------------------------------
(* C9 *)

\* two lines that are the same text once their double quotes are removed
SameButQuotes(a, b) == remove_quotes(strip(a)) = remove_quotes(strip(b))

NothingReported ==
    /\ diff.unique_to_file1 = {}
    /\ diff.unique_to_file2 = {}
    /\ diff.modified_rows = {}

(* C9 as stated: read_file strips the double quotes of an accepted line      *)
(* before storing it, so two files whose rows differ only by double quotes  *)
(* give equal RecordSet entries and find_differences reports nothing.       *)
C9_QuotesIgnored ==
    (/\ Compared
     /\ file1.status = "ok" /\ file2.status = "ok"
     /\ Len(file1.lines) = Len(file2.lines)
     /\ \A i \in DOMAIN file1.lines : SameButQuotes(file1.lines[i], file2.lines[i]))
    => (data1.data = data2.data /\ NothingReported)

\* every entry of the RecordSet is the trimmed text of a line of the file,
\* cut at the tabs and otherwise unchanged
StoredVerbatim(f, r) ==
    \A k \in DOMAIN r.data :
        \E i \in DOMAIN f.lines : TabFields(f.lines[i]) = <<k>> \o r.data[k]

\* every accepted line of the file that carries one of the codes has the text t
OnlyText(f, codes, t) ==
    \A i \in AcceptedIdx(f.lines) :
        TabFields(f.lines[i])[1] \in codes => strip(f.lines[i]) = t

(* C9 as amended: read_file trims a line but keeps its double quotes, so    *)
(* the quotes are part of the code and of the values.  When a row of file 1 *)
(* and a row of file 2 differ only by double quotes (and no other row of    *)
(* either file carries their codes), the code is reported in modified_rows  *)
(* if the quotes are in the values, and the two codes are reported as       *)
(* unique to file 1 and unique to file 2 if the quotes are around the code. *)
C9_QuotesSignificant ==
    Compared =>
        /\ file1.status = "ok" => StoredVerbatim(file1, data1)
        /\ file2.status = "ok" => StoredVerbatim(file2, data2)
        /\ \A i \in AcceptedIdx(file1.lines), j \in AcceptedIdx(file2.lines) :
              LET a == file1.lines[i]
                  b == file2.lines[j]
                  ka == TabFields(a)[1]
                  kb == TabFields(b)[1]
              IN  (/\ SameButQuotes(a, b)
                   /\ strip(a) # strip(b)
                   /\ OnlyText(file1, {ka, kb}, strip(a))
                   /\ OnlyText(file2, {ka, kb}, strip(b)))
                  => IF ka = kb
                     THEN ka \in Keys(diff.modified_rows)
                     ELSE /\ ka \in Keys(diff.unique_to_file1)
                          /\ kb \in Keys(diff.unique_to_file2)

\* file 1 holds one row with its code in double quotes, file 2 the same row
\* without them: each code is reported as unique to its file
C9_Witness ==
    /\ Compared
    /\ file1.lines = <<DifferRow(Quoted(<<"001">>), <<"Dev">>)>>
    /\ file2.lines = <<DifferRow(<<"001">>, <<"Dev">>)>>
    /\ Keys(diff.unique_to_file1) = {Quoted(<<"001">>)}
    /\ Keys(diff.unique_to_file2) = {<<"001">>}
    /\ diff.modified_rows = {}

----------------------------------------------------------------------------
(* C6: in the Differ, a file-level error on either input (missing, empty,   *)
(* encoding not detected, failure while opening or decoding) aborts the     *)
(* run: find_differences is not computed, the successful completion is not  *)
(* logged, and the process ends with a non-zero exit code.                  *)
C6_FileErrorsAbort ==
    (tool = "differ" /\ (file1.status # "ok" \/ file2.status # "ok"))
    => /\ diff = NoResult
       /\ "INFO comparison finished" \notin Range(log)
       /\ pc = "done" => exit_code # 0

----------------------------------------------------------------------------
(* C2 *)

\* process_file_content has returned in this run of the Normalizer
Processed == tool = "normalizer" /\ pc = "processed"

\* the indices of the lines that equal the header modulo whitespace
HeaderIdx(lines) == {i \in DOMAIN lines : HeaderModuloWhitespace(lines[i])}

\* the indices of the lines whose trimmed text is the header literally
ExactHeaderIdx(lines) == {i \in DOMAIN lines : strip(lines[i]) = HeaderText}

(* C2 as stated: in both tools a line that equals the expected header once  *)
(* all whitespace is removed is kept out of the accepted rows (the           *)
(* RecordSet) and out of the skipped list.                                  *)
C2_HeaderNotSkipped ==
    /\ Processed =>
          \A i \in HeaderIdx(content) :
              /\ strip(content[i]) \notin Range(skipped_lines)
              /\ cleaned_content =
                    process_file_content(Keep(content, DOMAIN content \ {i}, 1),
                                         expected_header).cleaned
    /\ Read1 =>
          \A i \in HeaderIdx(file1.lines) :
              /\ strip(file1.lines[i]) \notin Range(data1.skipped)
              /\ data1.data = read_file([file1 EXCEPT !.lines =
                                  Keep(@, DOMAIN @ \ {i}, 1)]).result.data
    /\ Read2 =>
          \A i \in HeaderIdx(file2.lines) :
              /\ strip(file2.lines[i]) \notin Range(data2.skipped)
              /\ data2.data = read_file([file2 EXCEPT !.lines =
                                  Keep(@, DOMAIN @ \ {i}, 1)]).result.data

\* the header lines h of a Differ file add nothing to the RecordSet and are
\* each appended, trimmed, to the skipped list
DifferHeaderSkipped(f, r) ==
    LET h == ExactHeaderIdx(f.lines)
        rest == read_file([f EXCEPT !.lines = Keep(@, DOMAIN @ \ h, 1)]).result
    IN  /\ r.data = rest.data
        /\ \A i \in h : strip(f.lines[i]) \in Range(r.skipped)
        /\ Len(r.skipped) = Len(rest.skipped) + Cardinality(h)

(* C2 as amended: a header line is kept out of the accepted rows (the       *)
(* RecordSet) and its trimmed text IS appended to the skipped list, so each *)
(* header line counts among the skipped lines.  The Normalizer takes as     *)
(* header every line equal to the expected header once all whitespace is    *)
(* removed from both; the Differ only a line whose trimmed text is the      *)
(* header literally.                                                        *)
C2_HeaderSkipped ==
    /\ Processed =>
          LET h == HeaderIdx(content)
              rest == process_file_content(Keep(content, DOMAIN content \ h, 1),
                                           expected_header)
          IN  /\ cleaned_content = rest.cleaned
              /\ \A i \in h : strip(content[i]) \in Range(skipped_lines)
              /\ Len(skipped_lines) = Len(rest.skipped) + Cardinality(h)
    /\ Read1 => DifferHeaderSkipped(file1, data1)
    /\ Read2 => DifferHeaderSkipped(file2, data2)

\* the Normalizer read a header written with runs of spaces, and a data row:
\* the row is accepted and the header is the one skipped line
C2_Witness ==
    /\ Processed
    /\ Len(content) = Len(cleaned_content) + 1
    /\ Len(cleaned_content) = 1
    /\ skipped_lines = <<JoinWith(HeaderLabels, <<Sp, Sp>>)>>

----------------------------------------------------------------------------
(* C3 *)

\* the fields of a line as the claim derives them: trimmed, all double
\* quotes removed, then cut at the delimiters
FieldsQuotesFirst(line) == re_split(remove_quotes(strip(line)))

(* C3 as stated: in the Normalizer every non-header line that, trimmed and  *)
(* with all double quotes removed, splits at the delimiter (a tab or a run  *)
(* of two or more spaces) into exactly 5 fields is accepted and written as  *)
(* those 5 fields joined by tabs.                                           *)
C3_QuotesThenSplit ==
    Processed =>
        \A i \in DOMAIN content :
            (~HeaderModuloWhitespace(content[i])
             /\ Len(FieldsQuotesFirst(content[i])) = NumFields)
            => /\ JoinWith(FieldsQuotesFirst(content[i]), <<Tab>>) \o <<NL>>
                     \in Range(cleaned_content)
               /\ strip(content[i]) \notin Range(skipped_lines)

\* the fields of a line as the code derives them: trimmed, cut at the
\* delimiters, then the double quotes removed from every field
FieldsSplitFirst(line) ==
    LET cut == re_split(strip(line))
    IN  [k \in DOMAIN cut |-> SelectSeq(cut[k], LAMBDA c : c # Quote)]

(* C3 as amended: in the Normalizer every non-header line whose trimmed     *)
(* text splits at the delimiter into exactly 5 fields -- the split is made  *)
(* before the double quotes are removed, so a quote between two spaces does *)
(* not make a delimiter -- is accepted and written as those 5 fields, in    *)
(* order, each with its double quotes removed, joined by tabs.              *)
C3_SplitThenQuotes ==
    Processed =>
        \A i \in DOMAIN content :
            (~HeaderModuloWhitespace(content[i])
             /\ Len(FieldsSplitFirst(content[i])) = NumFields)
            => /\ JoinWith(FieldsSplitFirst(content[i]), <<Tab>>) \o <<NL>>
                     \in Range(cleaned_content)
               /\ FieldsSplitFirst(content[i]) \in Range(table)
               /\ strip(content[i]) \notin Range(skipped_lines)

\* a line of five quoted values separated by runs of spaces was accepted as
\* the five values
C3_Witness ==
    /\ Processed
    /\ content = <<RowOf(NumFields, <<Sp, Sp>>, TRUE) \o <<NL>>>>
    /\ cleaned_content = <<RowOf(NumFields, <<Tab>>, FALSE) \o <<NL>>>>
    /\ skipped_lines = <<>>

----------------------------------------------------------------------------
(* C4: in both tools a non-header line that does not split into exactly 5   *)
(* fields is appended to the skipped list and adds nothing to the accepted  *)
(* output (cleaned_content, the RecordSet); every accepted row has exactly  *)
(* 5 fields (the code and 4 more), and no line is accepted in part.         *)

\* the Normalizer's lines that are no header and have another number of fields
MalformedIdx(lines) ==
    {i \in DOMAIN lines : /\ ~HeaderModuloWhitespace(lines[i])
                          /\ Len(re_split(strip(lines[i]))) # NumFields}

\* the Differ's lines that are no header and have another number of fields
DifferMalformedIdx(lines) ==
    {i \in DOMAIN lines : /\ strip(lines[i]) # HeaderText
                          /\ Len(TabFields(lines[i])) # NumFields}

DifferMalformedSkipped(f, r) ==
    LET bad == DifferMalformedIdx(f.lines)
        rest == read_file([f EXCEPT !.lines = Keep(@, DOMAIN @ \ bad, 1)]).result
    IN  /\ \A i \in bad : strip(f.lines[i]) \in Range(r.skipped)
        /\ r.data = rest.data
        /\ Len(r.skipped) = Len(rest.skipped) + Cardinality(bad)
        /\ \A k \in DOMAIN r.data : Len(r.data[k]) = NumFields - 1

C4_MalformedSkipped ==
    /\ Processed =>
          LET bad == MalformedIdx(content)
              rest == process_file_content(Keep(content, DOMAIN content \ bad, 1),
                                           expected_header)
          IN  /\ \A i \in bad : strip(content[i]) \in Range(skipped_lines)
              /\ cleaned_content = rest.cleaned
              /\ Len(skipped_lines) = Len(rest.skipped) + Cardinality(bad)
              /\ Len(cleaned_content) + Len(skipped_lines) = Len(content)
              /\ \A row \in Range(table) : Len(row) = NumFields
              /\ \A l \in Range(cleaned_content) : Len(split_tab(l)) = NumFields
    /\ Read1 => DifferMalformedSkipped(file1, data1)
    /\ Read2 => DifferMalformedSkipped(file2, data2)

\* the Normalizer read a line of 6 fields and a line of 5: the first is the
\* one skipped line, the second the one accepted row
C4_Witness ==
    /\ Processed
    /\ content = <<RowOf(NumFields + 1, <<Tab>>, FALSE) \o <<NL>>,
                   RowOf(NumFields, <<Tab>>, FALSE) \o <<NL>>>>
    /\ skipped_lines = <<RowOf(NumFields + 1, <<Tab>>, FALSE)>>
    /\ table = <<SubSeq(Values, 1, NumFields)>>

----------------------------------------------------------------------------
(* C5 *)

\* process_file_content was called on the output of process_file_content
RoundTripDone == tool = "process_file_content" /\ pc = "second"

Unchanged ==
    /\ refed.cleaned = cleaned_content
    /\ refed.skipped = <<>>
    /\ refed.table = table

(* C5 as stated: for every list of input lines, process_file_content called *)
(* on the cleaned lines it produced yields the same accepted lines, none of *)
(* them skipped, excluded as a header, or changed.                          *)
C5_RoundTrip == RoundTripDone => Unchanged

(* C5 as amended: the same, for every list of input lines that hold no      *)
(* double quote.  (A field that is empty, starts or ends with a space,      *)
(* holds a run of spaces, or a row that reads as the header, once the       *)
(* quotes are removed, does not survive the second pass.)                   *)
C5_RoundTripNoQuotes ==
    (RoundTripDone /\ \A i \in DOMAIN content : Quote \notin Range(content[i]))
    => Unchanged

\* two lines without quotes, the first one rewritten by the first pass, come
\* back unchanged from the second pass
C5_Witness ==
    /\ RoundTripDone
    /\ \A i \in DOMAIN content : Quote \notin Range(content[i])
    /\ Len(cleaned_content) = 2
    /\ cleaned_content[1] # content[1]
    /\ refed.cleaned = cleaned_content

----------------------------------------------------------------------------
(* C7: in convert_to_utf8 the output file is written only after the input   *)
(* was validated and decoded as UTF-16; when the input is missing, empty or *)
(* not UTF-16 the run ends, logged and without raising, with no parsing and *)
(* no write to the output path.                                             *)
C7_NoOutputOnBadInput ==
    tool = "normalizer" =>
        /\ file1.status \in {"missing", "empty", "undecodable"} =>
              /\ output = NoOutput
              /\ pc \notin {"opened", "processed"}
              /\ "DEBUG lines read" \notin Range(log)
              /\ pc = "done" =>
                    /\ exit_code = 0
                    /\ Len(log) = 1
                    /\ log[1] \in {"ERROR FileNotFoundError", "ERROR ValueError",
                                   "ERROR not UTF-16"}
        /\ output # NoOutput =>
              /\ file1.status = "ok"
              /\ "INFO opened" \in Range(log)
              /\ "DEBUG lines read" \in Range(log)

\* a run on a file that is not UTF-16 has ended with the error logged
C7_Witness ==
    /\ tool = "normalizer"
    /\ file1.status = "undecodable"
    /\ pc = "done"
    /\ log = <<"ERROR not UTF-16">>
    /\ output = NoOutput

----------------------------------------------------------------------------
(* C8 *)

\* a run of the Normalizer that ended after writing the output file
Written == tool = "normalizer" /\ pc = "done" /\ output.state = "written"

Reported == "WARNING counts differ" \in Range(log)

(* C8 as stated: in a run that wrote the output file a discrepancy is       *)
(* reported whenever zero rows were written or the number of accepted rows  *)
(* differs from the number of lines read -- so always when zero rows were   *)
(* written, also when the input decoded to zero lines.                      *)
C8_ZeroRowsReported ==
    Written =>
        ((Len(output.lines) = 0 \/ Len(cleaned_content) # Len(content)) => Reported)

(* C8 as amended: in a run that wrote the output file a discrepancy is      *)
(* reported exactly when the number of accepted rows differs from the       *)
(* number of lines read; a run that wrote zero rows reports one only when   *)
(* the input held at least one line.                                        *)
C8_CountsReported ==
    Written =>
        /\ Reported <=> Len(output.lines) # Len(file1.lines)
        /\ Len(output.lines) = 0 => (Reported <=> Len(file1.lines) > 0)

\* a run that read lines, accepted none, wrote the empty output and reported
C8_Witness ==
    /\ Written
    /\ Len(file1.lines) > 0
    /\ output.lines = <<>>
    /\ Reported

====
